---- MODULE Spec2Model ----
(***************************************************************************)
(* De Bruijn contig assembler (project3_assembly.py): index_kmers,         *)
(* filter_kmers, predecessors_and_successors and simple_path, run in the   *)
(* order main() calls them.  A nucleotide string is a sequence of          *)
(* one-character strings; a Python dict is a sequence of [key, val]        *)
(* records in insertion order; the recursion of build_contig is an         *)
(* explicit stack of frames.                                               *)
(***************************************************************************)
EXTENDS Integers, Sequences, FiniteSets, TLC

VARIABLES pc, sequences, k, threshold, kmers, filtered_kmers, index,
          contig_dict, visited, stack, list_contig, pos

vars == <<pc, sequences, k, threshold, kmers, filtered_kmers, index,
          contig_dict, visited, stack, list_contig, pos>>

(***************************************************************************)
(* Bounds of the explored inputs.                                          *)
(***************************************************************************)
MaxReads == 2
MaxTotalLen == 2
MaxK == 2
MaxThreshold == 2
MaxKmers == 3

(***************************************************************************)
(* Python strings, slices and the validating regular expression.           *)
(***************************************************************************)
Bases == <<"A", "C", "G", "T">>

BaseSet == {Bases[b] : b \in DOMAIN Bases}

\* A slice bound as Python normalises it: negative counts from the end, then clamped.
SliceBound(x, n) ==
    IF x < 0 THEN (IF x + n < 0 THEN 0 ELSE x + n)
    ELSE IF x > n THEN n ELSE x

\* s[a:b]
Slice(s, a, b) ==
    LET lo == SliceBound(a, Len(s))
        hi == SliceBound(b, Len(s))
    IN  IF lo < hi THEN SubSeq(s, lo + 1, hi) ELSE <<>>

\* w[1:]
DropFirst(w) == Slice(w, 1, Len(w))

\* w[:-1]
DropLast(w) == Slice(w, 0, -1)

\* re.compile('^[ACGT]+$').match(sequence): one or more bases, then the end of
\* the string or a newline that is the string's last character.
PatternMatch(sequence) ==
    \E n \in 1..Len(sequence) :
        /\ \A m \in 1..n : sequence[m] \in BaseSet
        /\ \/ n = Len(sequence)
           \/ n = Len(sequence) - 1 /\ sequence[Len(sequence)] = "\n"

(***************************************************************************)
(* Insertion-ordered dictionaries.                                         *)
(***************************************************************************)
Keys(d) == {d[n].key : n \in DOMAIN d}

HasKey(d, key) == \E n \in DOMAIN d : d[n].key = key

Get(d, key) == d[CHOOSE n \in DOMAIN d : d[n].key = key].val

\* d[key] = val: an existing key keeps its place, a new key goes last.
Put(d, key, val) ==
    IF HasKey(d, key)
    THEN [d EXCEPT ![CHOOSE n \in DOMAIN d : d[n].key = key].val = val]
    ELSE Append(d, [key |-> key, val |-> val])

(***************************************************************************)
(* index_kmers                                                             *)
(***************************************************************************)
RECURSIVE WindowLoop(_, _, _, _)
\* for i in range(len(sequence) - k + 1), from offset i on.
WindowLoop(acc, sequence, kk, i) ==
    IF i >= Len(sequence) - kk + 1 THEN acc
    ELSE LET kmer == Slice(sequence, i, i + kk)
         IN  WindowLoop(IF HasKey(acc, kmer)
                        THEN Put(acc, kmer, Get(acc, kmer) + 1)
                        ELSE Put(acc, kmer, 1),
                        sequence, kk, i + 1)

RECURSIVE SequenceLoop(_, _, _, _)
\* for sequence in sequences, from the n-th sequence on.
SequenceLoop(acc, seqs, kk, n) ==
    IF n > Len(seqs) THEN acc
    ELSE SequenceLoop(IF ~PatternMatch(seqs[n]) THEN acc
                      ELSE WindowLoop(acc, seqs[n], kk, 0),
                      seqs, kk, n + 1)

index_kmers(seqs, kk) == SequenceLoop(<<>>, seqs, kk, 1)

(***************************************************************************)
(* filter_kmers                                                            *)
(***************************************************************************)
Keep_Strictly(abundance, thr) == abundance > thr

\* if abundance >= threshold
Keep(abundance, thr) == abundance >= thr

RECURSIVE FilterLoop(_, _, _, _)
FilterLoop(acc, d, thr, n) ==
    IF n > Len(d) THEN acc
    ELSE FilterLoop(IF Keep(d[n].val, thr) THEN Put(acc, d[n].key, d[n].val) ELSE acc,
                    d, thr, n + 1)

filter_kmers(d, thr) == FilterLoop(<<>>, d, thr, 1)

(***************************************************************************)
(* predecessors_and_successors                                             *)
(***************************************************************************)
SuccessorPosibility_Reversed(w) ==
    [b \in DOMAIN Bases |-> Append(DropFirst(w), Bases[Len(Bases) + 1 - b])]

\* [kmer + 'A', kmer + 'C', kmer + 'G', kmer + 'T'] with kmer = w[1:]
SuccessorPosibility(w) == [b \in DOMAIN Bases |-> Append(DropFirst(w), Bases[b])]

\* ['A' + kmer, 'C' + kmer, 'G' + kmer, 'T' + kmer] with kmer = w[:-1]
PredecessorPosibility(w) == [b \in DOMAIN Bases |-> <<Bases[b]>> \o DropLast(w)]

Present(posibility, d) == SelectSeq(posibility, LAMBDA x : HasKey(d, x))

RECURSIVE AdjacencyLoop(_, _, _)
AdjacencyLoop(acc, d, n) ==
    IF n > Len(d) THEN acc
    ELSE LET w == d[n].key
         IN  AdjacencyLoop(
                 Put(acc, w, [successors   |-> Present(SuccessorPosibility(w), d),
                              predecessors |-> Present(PredecessorPosibility(w), d)]),
                 d, n + 1)

predecessors_and_successors(d) == AdjacencyLoop(<<>>, d, 1)

(***************************************************************************)
(* simple_path: frames of build_contig                                     *)
(***************************************************************************)
\* A call build_contig(w), before its first statement.
NewFrame(w) ==
    [w |-> w, contig |-> <<>>, successor |-> <<>>, pre |-> <<>>,
     best_contig |-> <<>>, i |-> 0, pc |-> "entry"]

Top == stack[Len(stack)]

Callers == SubSeq(stack, 1, Len(stack) - 1)

SetTop(f) == [stack EXCEPT ![Len(stack)] = f]

\* contig += successor[0][-1]
ExtendForward(contig, s) == Append(contig, s[Len(s)])

ExtendBackward_Appends(contig, p) == Append(contig, p[1])

\* contig = pre[0][0] + contig
ExtendBackward(contig, p) == <<p[1]>> \o contig

Longest_OnTies(best_contig, new_contig) ==
    IF Len(new_contig) >= Len(best_contig) THEN new_contig ELSE best_contig

\* if len(new_contig) > len(best_contig): best_contig = new_contig
Longest(best_contig, new_contig) ==
    IF Len(new_contig) > Len(best_contig) THEN new_contig ELSE best_contig

\* The next entry of a branch loop, from place i on, that is not in visited
\* (0 when the loop runs out): `for s in successor: if s not in visited`.
NextUnvisited(list, i) ==
    IF \E n \in i..Len(list) : list[n] \notin visited
    THEN CHOOSE n \in i..Len(list) :
             /\ list[n] \notin visited
             /\ \A m \in i..(n - 1) : list[m] \in visited
    ELSE 0

MarkVisited_Forgets(w) == visited

\* visited.add(w)
MarkVisited(w) == visited \cup {w}

\* while len(successor) == 1 and successor[0] not in visited
LoopCondition(list) == Len(list) = 1 /\ list[1] \notin visited

BranchCondition_Unvisited(list) == Cardinality({n \in DOMAIN list : list[n] \notin visited}) > 1

\* if len(successor) > 1 / if len(pre) > 1
BranchCondition(list) == Len(list) > 1

\* The value a call returns, received where the call was made: the driver
\* appends it, a branch loop compares it against best_contig.
Resume(stk, value) ==
    IF stk = <<>>
    THEN [stack |-> <<>>, list_contig |-> Append(list_contig, value), pos |-> pos + 1]
    ELSE LET c == stk[Len(stk)]
             new_contig == IF c.pc = "fbranch" THEN value ELSE value \o c.contig
         IN  [stack |-> [stk EXCEPT ![Len(stk)] =
                            [c EXCEPT !.best_contig = Longest(c.best_contig, new_contig),
                                      !.i = c.i + 1]],
              list_contig |-> list_contig,
              pos |-> pos]

(***************************************************************************)
(* Inputs                                                                  *)
(***************************************************************************)
\* Characters of the reads: two bases, and two characters that are no base.
ReadChars == {"A", "C", "N", "\n"}

Strings(chars, n) == [1..n -> chars]

RECURSIVE ReadLists(_, _)
\* The lists of m reads of at most t characters in total.
ReadLists(m, t) ==
    IF m = 0 THEN {<<>>}
    ELSE UNION {{<<r>> \o rest : rest \in ReadLists(m - 1, t - Len(r))} :
                r \in UNION {Strings(ReadChars, n) : n \in 0..t}}

\* The lists of n distinct elements of S.
DistinctLists(S, n) == {l \in [1..n -> S] : \A a, b \in 1..n : l[a] = l[b] => a = b}

\* Reads with characters that are no base, every k from a negative one up, every threshold.
InitReads ==
    /\ sequences \in UNION {ReadLists(m, MaxTotalLen) : m \in 0..MaxReads}
    /\ k \in (-1)..MaxK
    /\ threshold \in 0..MaxThreshold

\* Reads that are each one k-mer: every De Bruijn graph of up to MaxKmers nodes,
\* in every insertion order, for k = 1 and k = 2.
InitGraphs ==
    /\ k \in {1, 2}
    /\ sequences \in UNION {DistinctLists(Strings(BaseSet, k), n) : n \in 0..MaxKmers}
    /\ threshold = 1

\* The documented run: one read, k = 3, threshold = 2.
InitScenario ==
    /\ sequences = << <<"A", "C", "G", "T", "A", "C", "G", "T", "A">> >>
    /\ k = 3
    /\ threshold = 2

Init ==
    /\ pc = "start"
    /\ InitReads \/ InitGraphs \/ InitScenario
    /\ kmers = <<>>
    /\ filtered_kmers = <<>>
    /\ index = <<>>
    /\ contig_dict = <<>>
    /\ visited = {}
    /\ stack = <<>>
    /\ list_contig = <<>>
    /\ pos = 1

(***************************************************************************)
(* main(): the pipeline                                                    *)
(***************************************************************************)
IndexKmers ==
    /\ pc = "start"
    /\ kmers' = index_kmers(sequences, k)
    /\ pc' = "indexed"
    /\ UNCHANGED <<sequences, k, threshold, filtered_kmers, index,
                   contig_dict, visited, stack, list_contig, pos>>

FilterKmers ==
    /\ pc = "indexed"
    /\ filtered_kmers' = filter_kmers(kmers, threshold)
    /\ pc' = "filtered"
    /\ UNCHANGED <<sequences, k, threshold, kmers, index,
                   contig_dict, visited, stack, list_contig, pos>>

PredecessorsAndSuccessors ==
    /\ pc = "filtered"
    /\ index' = predecessors_and_successors(filtered_kmers)
    /\ pc' = "adjacency"
    /\ UNCHANGED <<sequences, k, threshold, kmers, filtered_kmers,
                   contig_dict, visited, stack, list_contig, pos>>

\* simple_path(index) is called: contig_dict = {}, visited = set(), list_contig = [].
SimplePathBegin ==
    /\ pc = "adjacency"
    /\ contig_dict' = <<>>
    /\ visited' = {}
    /\ stack' = <<>>
    /\ list_contig' = <<>>
    /\ pos' = 1
    /\ pc' = "assembling"
    /\ UNCHANGED <<sequences, k, threshold, kmers, filtered_kmers, index>>

inputs == <<sequences, k, threshold, kmers, filtered_kmers, index>>

(***************************************************************************)
(* simple_path: the driver loop                                            *)
(***************************************************************************)
DriverStarts_Always(w) == TRUE

\* The driver's test `if w not in visited`.
DriverStarts(w) == w \notin visited

\* for w in index.keys(): if w not in visited: ... build_contig(w)
DriverCall ==
    /\ pc = "assembling" /\ stack = <<>> /\ pos <= Len(index)
    /\ DriverStarts(index[pos].key)
    /\ stack' = <<NewFrame(index[pos].key)>>
    /\ UNCHANGED <<pc, inputs, contig_dict, visited, list_contig, pos>>

\* ... a key already in visited is passed over.
DriverSkip ==
    /\ pc = "assembling" /\ stack = <<>> /\ pos <= Len(index)
    /\ ~DriverStarts(index[pos].key)
    /\ pos' = pos + 1
    /\ UNCHANGED <<pc, inputs, contig_dict, visited, stack, list_contig>>

\* return list_contig
DriverReturn ==
    /\ pc = "assembling" /\ stack = <<>> /\ pos > Len(index)
    /\ pc' = "done"
    /\ UNCHANGED <<inputs, contig_dict, visited, stack, list_contig, pos>>

(***************************************************************************)
(* simple_path: build_contig                                               *)
(***************************************************************************)
InFrame(label) == pc = "assembling" /\ stack # <<>> /\ Top.pc = label

\* The memo test, then contig = w; visited.add(w); successor = index[w]["successors"].
Enter ==
    /\ InFrame("entry")
    /\ IF HasKey(contig_dict, Top.w)
       THEN LET r == Resume(Callers, Get(contig_dict, Top.w))
            IN  /\ stack' = r.stack
                /\ list_contig' = r.list_contig
                /\ pos' = r.pos
                /\ UNCHANGED visited
       ELSE /\ visited' = MarkVisited(Top.w)
            /\ stack' = SetTop([Top EXCEPT !.contig = Top.w,
                                           !.successor = Get(index, Top.w).successors,
                                           !.pc = "fwd"])
            /\ UNCHANGED <<list_contig, pos>>
    /\ UNCHANGED <<pc, inputs, contig_dict>>

\* One iteration of the forward extension loop.
ForwardExtend ==
    /\ InFrame("fwd")
    /\ LoopCondition(Top.successor)
    /\ visited' = MarkVisited(Top.successor[1])
    /\ stack' = SetTop([Top EXCEPT !.contig = ExtendForward(Top.contig, Top.successor[1]),
                                   !.successor = Get(index, Top.successor[1]).successors])
    /\ UNCHANGED <<pc, inputs, contig_dict, list_contig, pos>>

\* The loop is left with several successors: best_contig = contig.
ForwardBranch ==
    /\ InFrame("fwd")
    /\ ~LoopCondition(Top.successor)
    /\ BranchCondition(Top.successor)
    /\ stack' = SetTop([Top EXCEPT !.best_contig = Top.contig, !.i = 1, !.pc = "fbranch"])
    /\ UNCHANGED <<pc, inputs, contig_dict, visited, list_contig, pos>>

\* The loop is left with no branch: pre = index[w]["predecessors"].
ForwardEnd ==
    /\ InFrame("fwd")
    /\ ~LoopCondition(Top.successor)
    /\ ~BranchCondition(Top.successor)
    /\ stack' = SetTop([Top EXCEPT !.pre = Get(index, Top.w).predecessors, !.pc = "bwd"])
    /\ UNCHANGED <<pc, inputs, contig_dict, visited, list_contig, pos>>

\* for s in successor: if s not in visited: new_contig = build_contig(s)
ForwardBranchCall ==
    /\ InFrame("fbranch")
    /\ NextUnvisited(Top.successor, Top.i) # 0
    /\ LET n == NextUnvisited(Top.successor, Top.i)
       IN  stack' = Append(SetTop([Top EXCEPT !.i = n]), NewFrame(Top.successor[n]))
    /\ UNCHANGED <<pc, inputs, contig_dict, visited, list_contig, pos>>

\* The loop over the successors ends: contig = best_contig; pre = index[w]["predecessors"].
ForwardBranchEnd ==
    /\ InFrame("fbranch")
    /\ NextUnvisited(Top.successor, Top.i) = 0
    /\ stack' = SetTop([Top EXCEPT !.contig = Top.best_contig,
                                   !.pre = Get(index, Top.w).predecessors,
                                   !.pc = "bwd"])
    /\ UNCHANGED <<pc, inputs, contig_dict, visited, list_contig, pos>>

\* One iteration of the backward extension loop.
BackwardExtend ==
    /\ InFrame("bwd")
    /\ LoopCondition(Top.pre)
    /\ visited' = MarkVisited(Top.pre[1])
    /\ stack' = SetTop([Top EXCEPT !.contig = ExtendBackward(Top.contig, Top.pre[1]),
                                   !.pre = Get(index, Top.pre[1]).predecessors])
    /\ UNCHANGED <<pc, inputs, contig_dict, list_contig, pos>>

\* The loop is left with several predecessors: best_contig = contig.
BackwardBranch ==
    /\ InFrame("bwd")
    /\ ~LoopCondition(Top.pre)
    /\ BranchCondition(Top.pre)
    /\ stack' = SetTop([Top EXCEPT !.best_contig = Top.contig, !.i = 1, !.pc = "bbranch"])
    /\ UNCHANGED <<pc, inputs, contig_dict, visited, list_contig, pos>>

\* The loop is left with no branch.
BackwardEnd ==
    /\ InFrame("bwd")
    /\ ~LoopCondition(Top.pre)
    /\ ~BranchCondition(Top.pre)
    /\ stack' = SetTop([Top EXCEPT !.pc = "ret"])
    /\ UNCHANGED <<pc, inputs, contig_dict, visited, list_contig, pos>>

\* for p in pre: if p not in visited: new_contig = build_contig(p) + contig
BackwardBranchCall ==
    /\ InFrame("bbranch")
    /\ NextUnvisited(Top.pre, Top.i) # 0
    /\ LET n == NextUnvisited(Top.pre, Top.i)
       IN  stack' = Append(SetTop([Top EXCEPT !.i = n]), NewFrame(Top.pre[n]))
    /\ UNCHANGED <<pc, inputs, contig_dict, visited, list_contig, pos>>

\* The loop over the predecessors ends: contig = best_contig.
BackwardBranchEnd ==
    /\ InFrame("bbranch")
    /\ NextUnvisited(Top.pre, Top.i) = 0
    /\ stack' = SetTop([Top EXCEPT !.contig = Top.best_contig, !.pc = "ret"])
    /\ UNCHANGED <<pc, inputs, contig_dict, visited, list_contig, pos>>

\* contig_dict[w] = contig; return contig
Return ==
    /\ InFrame("ret")
    /\ contig_dict' = Put(contig_dict, Top.w, Top.contig)
    /\ LET r == Resume(Callers, Top.contig)
       IN  /\ stack' = r.stack
           /\ list_contig' = r.list_contig
           /\ pos' = r.pos
    /\ UNCHANGED <<pc, inputs, visited>>

Next ==
    \/ IndexKmers
    \/ FilterKmers
    \/ PredecessorsAndSuccessors
    \/ SimplePathBegin
    \/ DriverCall
    \/ DriverSkip
    \/ DriverReturn
    \/ Enter
    \/ ForwardExtend
    \/ ForwardBranch
    \/ ForwardEnd
    \/ ForwardBranchCall
    \/ ForwardBranchEnd
    \/ BackwardExtend
    \/ BackwardBranch
    \/ BackwardEnd
    \/ BackwardBranchCall
    \/ BackwardBranchEnd
    \/ Return

Spec == Init /\ [][Next]_vars

\* The program is one sequential thread: a step that can be taken is taken.
FairSpec == Spec /\ WF_vars(Next)

(***************************************************************************)
(* Phases of the run and vocabulary of the properties                      *)
(***************************************************************************)
Indexed == pc # "start"

Filtered == pc \notin {"start", "indexed"}

HasIndex == pc \notin {"start", "indexed", "filtered"}

Assembling == pc \in {"assembling", "done"}

Done == pc = "done"

Range(s) == {s[n] : n \in DOMAIN s}

KeyList(d) == [n \in DOMAIN d |-> d[n].key]

Count(d, key) == IF HasKey(d, key) THEN Get(d, key) ELSE 0

OnlyBases(s) == \A n \in DOMAIN s : s[n] \in BaseSet

BaseRank(c) == CHOOSE b \in DOMAIN Bases : Bases[b] = c

NoDuplicates(list) == \A m, n \in DOMAIN list : list[m] = list[n] => m = n

Unvisited(list) == {n \in DOMAIN list : list[n] \notin visited}

\* The string a walk spells: its first k-mer, then the last character of each next one.
RECURSIVE Spelled(_)
Spelled(walk) ==
    IF Len(walk) = 0 THEN <<>>
    ELSE IF Len(walk) = 1 THEN walk[1]
    ELSE Append(Spelled(SubSeq(walk, 1, Len(walk) - 1)), walk[Len(walk)][Len(walk[Len(walk)])])

\* The k-mers met from w on by following the only successor, at most n steps.
RECURSIVE Follow(_, _)
Follow(w, n) ==
    IF n = 0 \/ Len(Get(index, w).successors) # 1 THEN <<w>>
    ELSE <<w>> \o Follow(Get(index, w).successors[1], n - 1)

ChainHeads == {w \in Keys(index) : Get(index, w).predecessors = <<>>}

ChainWalk == Follow(CHOOSE w \in ChainHeads : TRUE, Len(index) - 1)

\* The graph is one unbranched chain: at most one successor and one predecessor
\* everywhere, and the walk from its only head passes through every k-mer.
IsChain ==
    /\ index # <<>>
    /\ \A w \in Keys(index) : /\ Len(Get(index, w).successors) <= 1
                              /\ Len(Get(index, w).predecessors) <= 1
    /\ Cardinality(ChainHeads) = 1
    /\ Range(ChainWalk) = Keys(index)

Scenario == << <<"A", "C", "G", "T", "A", "C", "G", "T", "A">> >>

ScenarioRun == sequences = Scenario /\ k = 3 /\ threshold = 2

(***************************************************************************)
(* C1: when the filtered graph is one unbranched chain, simple_path        *)
(* returns exactly one contig, the chain spelled out (n + k - 1 characters *)
(* for n k-mers), whichever k-mer comes first in insertion order; and the  *)
(* documented run (ACGTACGTA, k = 3, threshold = 2) counts ACG:2, CGT:2,   *)
(* GTA:2, TAC:1, keeps ACG, CGT, GTA and returns ["ACGTA"].                *)
(***************************************************************************)
C1_ChainContig ==
    /\ (Done /\ IsChain) =>
           /\ list_contig = <<Spelled(ChainWalk)>>
           /\ Len(list_contig[1]) = Len(index) + Len(index[1].key) - 1
    /\ ScenarioRun =>
           /\ Indexed => kmers = << [key |-> <<"A", "C", "G">>, val |-> 2],
                                    [key |-> <<"C", "G", "T">>, val |-> 2],
                                    [key |-> <<"G", "T", "A">>, val |-> 2],
                                    [key |-> <<"T", "A", "C">>, val |-> 1] >>
           /\ Filtered => KeyList(filtered_kmers) =
                              << <<"A", "C", "G">>, <<"C", "G", "T">>, <<"G", "T", "A">> >>
           /\ Done => list_contig = << <<"A", "C", "G", "T", "A">> >>

\* A chain of three k-mers whose first inserted k-mer is in the middle of the chain.
C1_Witness ==
    /\ Done /\ IsChain /\ Len(index) >= 3
    /\ Get(index, index[1].key).successors # <<>>
    /\ Get(index, index[1].key).predecessors # <<>>

\* Where the windows of the sequences are, and which of them lie in valid sequences.
Offsets == UNION {{<<n, off>> : off \in 0..(Len(sequences[n]) - k)} : n \in DOMAIN sequences}

Window(at) == SubSeq(sequences[at[1]], at[2] + 1, at[2] + k)

Occurrences(kmer) == {at \in Offsets : OnlyBases(sequences[at[1]]) /\ Window(at) = kmer}

(***************************************************************************)
(* C2: for k > 0 the count index_kmers gives a k-mer is the number of      *)
(* (sequence, offset) pairs, offset in 0..len-k, at which it occurs in the *)
(* sequences made only of A, C, G, T; a sequence with any other character, *)
(* also as its last character, and a sequence shorter than k, contribute   *)
(* nothing.                                                                *)
(***************************************************************************)
C2_CountsOfValidSequences ==
    (Indexed /\ k > 0) =>
        \A kmer \in Keys(kmers) \cup {Window(at) : at \in Offsets} :
            Count(kmers, kmer) = Cardinality(Occurrences(kmer))

\* Edges and orderings of the De Bruijn graph.
IsSuccessor(w, s) == SubSeq(s, 1, Len(s) - 1) = SubSeq(w, 2, Len(w))

OrderedBy(list, place(_)) ==
    \A m, n \in DOMAIN list :
        m < n => BaseRank(list[m][place(list[m])]) < BaseRank(list[n][place(list[n])])

LastPlace(s) == Len(s)

FirstPlace(s) == 1

KmersOverBases ==
    /\ k >= 1
    /\ \A w \in Keys(filtered_kmers) : Len(w) = k /\ OnlyBases(w)

(***************************************************************************)
(* C3: for filtered k-mers over A, C, G, T of one length k, the index has  *)
(* exactly the keys of FilteredKmers; the successors of w are the filtered *)
(* s with s[0:k-1] = w[1:k], the predecessors the filtered p with          *)
(* p[1:k] = w[0:k-1]; each list has no duplicates and is ordered by the    *)
(* extending base in the order A, C, G, T.                                 *)
(***************************************************************************)
C3_Adjacency ==
    (pc = "adjacency" /\ KmersOverBases) =>
        /\ Keys(index) = Keys(filtered_kmers)
        /\ Len(index) = Len(filtered_kmers)
        /\ \A w \in Keys(index) :
              LET e == Get(index, w)
              IN  /\ Range(e.successors) = {s \in Keys(filtered_kmers) : IsSuccessor(w, s)}
                  /\ Range(e.predecessors) = {p \in Keys(filtered_kmers) : IsSuccessor(p, w)}
                  /\ NoDuplicates(e.successors)
                  /\ NoDuplicates(e.predecessors)
                  /\ OrderedBy(e.successors, LastPlace)
                  /\ OrderedBy(e.predecessors, FirstPlace)

\* Some k-mer has several successors and several predecessors, with T among the bases.
C3_Witness ==
    /\ pc = "adjacency" /\ KmersOverBases
    /\ \E w \in Keys(index) :
          /\ Len(Get(index, w).successors) >= 2
          /\ Len(Get(index, w).predecessors) >= 2
          /\ \E s \in Range(Get(index, w).successors) : s[Len(s)] = "T"
          /\ \E v \in Keys(index) : Get(index, v).successors # Get(index, w).successors

\* Sub-mappings that keep the order of the mapping they come from.
Place(d, key) == CHOOSE n \in DOMAIN d : d[n].key = key

\* sub holds entries of d, each once, in the order d has them.
IsOrderedSubMapping(sub, d) ==
    /\ \A n \in DOMAIN sub : HasKey(d, sub[n].key) /\ sub[n] = d[Place(d, sub[n].key)]
    /\ \A m, n \in DOMAIN sub : m < n => Place(d, sub[m].key) < Place(d, sub[n].key)

(***************************************************************************)
(* C4: filter_kmers returns a new mapping with exactly the entries of its  *)
(* input whose count is >= threshold, in the input's order, and leaves the *)
(* input as it was; threshold 0 returns the input; a threshold above every *)
(* count returns nothing, and the index and the contig list are empty.     *)
(***************************************************************************)
C4_Filter ==
    /\ pc = "filtered" =>
          /\ kmers = index_kmers(sequences, k)
          /\ NoDuplicates(KeyList(kmers))
          /\ IsOrderedSubMapping(filtered_kmers, kmers)
          /\ \A n \in DOMAIN kmers :
                kmers[n].val >= threshold <=> kmers[n] \in Range(filtered_kmers)
          /\ threshold = 0 => filtered_kmers = kmers
    /\ (Filtered /\ \A n \in DOMAIN kmers : threshold > kmers[n].val) =>
          /\ filtered_kmers = <<>>
          /\ HasIndex => index = <<>>
          /\ Done => list_contig = <<>>

\* Some entries are kept, in order, and some are dropped; one is kept at the threshold.
C4_Witness ==
    /\ pc = "filtered"
    /\ Len(filtered_kmers) >= 2
    /\ Len(kmers) > Len(filtered_kmers)
    /\ \E n \in DOMAIN filtered_kmers : filtered_kmers[n].val = threshold

(***************************************************************************)
(* C5: for k <= 0, whatever the sequences and the threshold >= 0, the      *)
(* pipeline yields no k-mers, an empty filtered set and an empty contig    *)
(* list.                                                                   *)
(***************************************************************************)
C5_DegenerateKIsEmpty ==
    k <= 0 =>
        /\ Indexed => kmers = <<>>
        /\ Filtered => filtered_kmers = <<>>
        /\ Done => list_contig = <<>>

(***************************************************************************)
(* Vocabulary of the traversal properties                                  *)
(***************************************************************************)
Caller == stack[Len(stack) - 1]

NewTop == stack'[Len(stack')]

Calls == Len(stack') = Len(stack) + 1

SameDepth == Len(stack') = Len(stack)

\* The top frame has left its backward extension loop and stands before the
\* loop over the predecessors.
AfterBackwardLoop == InFrame("bbranch") /\ Top.i = 1

\* What holds of the frames, and of each step, while simple_path runs.
C6_Frames ==
    Assembling =>
        /\ Keys(contig_dict) \subseteq visited
        /\ NoDuplicates(KeyList(contig_dict))
        /\ \A m \in DOMAIN stack :
              /\ ~HasKey(contig_dict, stack[m].w)
              /\ stack[m].pc = "entry" <=> stack[m].w \notin visited
              /\ \A n \in DOMAIN stack : stack[m].w = stack[n].w => m = n

C6_Step ==
    pc = "assembling" =>
        /\ visited \subseteq visited'
        /\ Cardinality(visited') <= Cardinality(visited) + 1
        /\ Calls => /\ NewTop.w \notin visited
                    /\ ~HasKey(contig_dict, NewTop.w)
        /\ \A w \in Keys(contig_dict) :
              HasKey(contig_dict', w) /\ Get(contig_dict', w) = Get(contig_dict, w)

(***************************************************************************)
(* C6: a k-mer once visited is never a contig start again: the driver and  *)
(* the branch loops call build_contig(w) only when w is not in visited, so *)
(* each k-mer enters visited once, build_contig runs at most once per      *)
(* k-mer, the memo-hit return is never taken, and the keys of contig_dict  *)
(* are always in visited.                                                  *)
(***************************************************************************)
C6_VisitedOnce == []C6_Frames /\ [][C6_Step]_vars

\* A branch loop has passed over a visited entry and calls build_contig on a later one.
C6_Witness ==
    /\ pc = "assembling" /\ Len(stack) >= 2 /\ Top.pc = "entry"
    /\ contig_dict # <<>>
    /\ LET list == IF Caller.pc = "fbranch" THEN Caller.successor ELSE Caller.pre
       IN  \E m \in 1..(Caller.i - 1) : list[m] \in visited

(***************************************************************************)
(* C7: backward branch resolution (building a predecessor p and forming    *)
(* build(p) + contig) happens only when the predecessor list left by the   *)
(* backward loop has more than one unvisited entry; with several entries   *)
(* of which at most one is unvisited, no predecessor is built and contig   *)
(* stays as the backward loop left it.                                     *)
(***************************************************************************)
C7_OnlyWithSeveralUnvisited ==
    [][(AfterBackwardLoop /\ Cardinality(Unvisited(Top.pre)) <= 1) =>
           (SameDepth /\ NewTop.contig = Top.contig)]_vars

\* The steps around the loop over the predecessors.
C7_Step ==
    /\ (InFrame("bwd") /\ ~LoopCondition(Top.pre)) =>
           /\ SameDepth
           /\ NewTop.contig = Top.contig
           /\ NewTop.pc = IF Len(Top.pre) > 1 THEN "bbranch" ELSE "ret"
    /\ AfterBackwardLoop => Top.best_contig = Top.contig
    /\ InFrame("bbranch") =>
           LET rest == {n \in Unvisited(Top.pre) : n >= Top.i}
           IN  /\ Len(Top.pre) > 1
               /\ IF rest # {}
                  THEN /\ Calls
                       /\ \E n \in rest : /\ NewTop.w = Top.pre[n]
                                          /\ \A m \in rest : n <= m
                       /\ stack'[Len(stack)].contig = Top.contig
                  ELSE /\ SameDepth
                       /\ NewTop.contig = Top.best_contig
                       /\ NewTop.pc = "ret"
    /\ (Calls /\ stack # <<>> /\ Top.pc = "bbranch") =>
           /\ Len(Top.pre) > 1
           /\ NewTop.w \in Range(Top.pre) \ visited
    /\ (InFrame("ret") /\ Len(stack) >= 2 /\ Caller.pc = "bbranch") =>
           NewTop.best_contig = IF Len(Top.contig \o Caller.contig) > Len(Caller.best_contig)
                                THEN Top.contig \o Caller.contig
                                ELSE Caller.best_contig

(***************************************************************************)
(* C7 as the code has it: the predecessors are gone through exactly when   *)
(* the list left by the backward loop has more than one entry, and each    *)
(* entry unvisited at its turn is built, also when it is the only          *)
(* unvisited one; with several entries none of which is unvisited, or with *)
(* at most one entry, no predecessor is built and contig stays.            *)
(***************************************************************************)
C7_BackwardBranch == [][C7_Step]_vars

\* Several predecessors, exactly one of them unvisited: it is about to be built.
C7_Witness ==
    /\ AfterBackwardLoop
    /\ Len(Top.pre) >= 2
    /\ Cardinality(Unvisited(Top.pre)) = 1

\* A string all of whose windows are k-mers of the graph, each the successor of the one before.
IsWalk(contig) ==
    /\ Len(contig) >= k
    /\ \A off \in 0..(Len(contig) - k) :
          LET w == SubSeq(contig, off + 1, off + k)
          IN  /\ HasKey(filtered_kmers, w)
              /\ off < Len(contig) - k =>
                     SubSeq(contig, off + 2, off + k + 1) \in Range(Get(index, w).successors)

(***************************************************************************)
(* C8: every contig simple_path returns spells a walk of the graph: each   *)
(* of its windows of length k is a key of FilteredKmers and consecutive    *)
(* windows are joined by a successor edge of the index.                    *)
(***************************************************************************)
C8_ContigsAreWalks ==
    (Done /\ KmersOverBases) => \A n \in DOMAIN list_contig : IsWalk(list_contig[n])

\* The frames and the steps of the loop over the successors.
\* What the successors gone through so far returned.
Tried(f) == {Get(contig_dict, f.successor[n]) :
                n \in {m \in 1..(f.i - 1) : HasKey(contig_dict, f.successor[m])}}

C9_Frames ==
    Assembling =>
        \A m \in DOMAIN stack :
            stack[m].pc = "fbranch" =>
                /\ Len(stack[m].successor) > 1
                /\ OrderedBy(stack[m].successor, LastPlace)
                /\ stack[m].best_contig \in {stack[m].contig} \cup Tried(stack[m])
                /\ Len(stack[m].best_contig) >= Len(stack[m].contig)

C9_Step ==
    /\ (InFrame("fwd") /\ ~LoopCondition(Top.successor)) =>
           /\ SameDepth
           /\ NewTop.contig = Top.contig
           /\ IF Len(Top.successor) > 1
              THEN NewTop.pc = "fbranch" /\ NewTop.best_contig = Top.contig /\ NewTop.i = 1
              ELSE NewTop.pc = "bwd"
    /\ InFrame("fbranch") =>
           LET rest == {n \in Unvisited(Top.successor) : n >= Top.i}
           IN  IF rest # {}
               THEN /\ Calls
                    /\ \E n \in rest : /\ NewTop.w = Top.successor[n]
                                       /\ \A m \in rest : n <= m
                    /\ stack'[Len(stack)].contig = Top.contig
                    /\ stack'[Len(stack)].best_contig = Top.best_contig
               ELSE /\ SameDepth
                    /\ NewTop.contig = Top.best_contig
                    /\ NewTop.pc = "bwd"
    /\ (InFrame("ret") /\ Len(stack) >= 2 /\ Caller.pc = "fbranch") =>
           /\ NewTop.contig = Caller.contig
           /\ NewTop.i = Caller.i + 1
           /\ NewTop.best_contig = IF Len(Top.contig) > Len(Caller.best_contig)
                                   THEN Top.contig
                                   ELSE Caller.best_contig

(***************************************************************************)
(* C9: when the forward loop is left with more than one successor, the     *)
(* successors are tried in the index's A, C, G, T order, each one          *)
(* unvisited at its turn is built, and contig becomes the first strictly   *)
(* longest among the accumulated contig and those results, taken whole     *)
(* (the accumulated contig stays on ties); with zero or one successor the  *)
(* step leaves contig as it is.                                            *)
(***************************************************************************)
C9_ForwardBranch == []C9_Frames /\ [][C9_Step]_vars

\* A successor built in the loop returns a contig strictly longer than the best so far.
C9_Witness ==
    /\ InFrame("ret") /\ Len(stack) >= 2 /\ Caller.pc = "fbranch"
    /\ Len(Top.contig) > Len(Caller.best_contig)
    /\ \E m \in 1..(Caller.i - 1) : Caller.successor[m] \in visited

\* Bounds on the traversal, and a measure of what is left to do.
C10_Bounded ==
    Assembling =>
        /\ Len(stack) <= Len(index)
        /\ visited \subseteq Keys(index)
        /\ Len(list_contig) <= Cardinality(visited)
        /\ Done => /\ Keys(index) \subseteq visited
                   /\ Len(list_contig) <= Len(index)
                   /\ stack = <<>>

C10_Step ==
    (\/ InFrame("entry")
     \/ InFrame("fwd") /\ LoopCondition(Top.successor)
     \/ InFrame("bwd") /\ LoopCondition(Top.pre)) =>
        /\ visited \subseteq visited'
        /\ Cardinality(visited') = Cardinality(visited) + 1

StepsLeft(f) ==
    CASE f.pc = "entry"   -> 0
      [] f.pc = "fwd"     -> 5
      [] f.pc = "fbranch" -> 4
      [] f.pc = "bwd"     -> 3
      [] f.pc = "bbranch" -> 2
      [] f.pc = "ret"     -> 1

RECURSIVE StepsLeftIn(_)
StepsLeftIn(stk) ==
    IF stk = <<>> THEN 0 ELSE StepsLeft(stk[Len(stk)]) + StepsLeftIn(SubSeq(stk, 1, Len(stk) - 1))

Variant ==
    7 * Cardinality(Keys(index) \ visited)
    + StepsLeftIn(stack)
    + 2 * (Len(index) + 1 - pos)
    + (IF stack # <<>> /\ Top.pc = "entry" THEN 0 ELSE 1)
    + (IF Done THEN 0 ELSE 1)

C10_Progress == pc = "assembling" => (ENABLED Next) /\ Variant > 0

C10_Decrease == pc = "assembling" => Variant' < Variant /\ Variant' >= 0

(***************************************************************************)
(* C10: simple_path terminates on every index, cycles and self-loops       *)
(* included: each iteration of an extension loop and each call of          *)
(* build_contig adds a k-mer that was not in visited, the calls never nest *)
(* deeper than the number of k-mers, and at the return every key is in     *)
(* visited and there are at most as many contigs as keys.                  *)
(***************************************************************************)
C10_Terminates ==
    /\ []C10_Bounded
    /\ []C10_Progress
    /\ [][C10_Step]_vars
    /\ [][C10_Decrease]_vars

\* The same as a liveness property of FairSpec: every run reaches the return.
C10_EventuallyDone == <>Done

\* The run is over on a graph with a self-loop and a cycle of two k-mers.
C10_Witness ==
    /\ Done
    /\ \E w \in Keys(index) : w \in Range(Get(index, w).successors)
    /\ \E v, w \in Keys(index) :
          /\ v # w
          /\ w \in Range(Get(index, v).successors)
          /\ v \in Range(Get(index, w).successors)

====
